---- MODULE Spec2Model ----
(***************************************************************************)
(* A model of the shared core of the tag-manager command line client:      *)
(*   - request    (lib/http: one JSON exchange, classified failures),      *)
(*   - withRetry  (lib/http: bounded retry with backoff),                  *)
(*   - the credential resolver (auth: resolveAccessToken and the           *)
(*     operations that write the persisted credential record).             *)
(* JavaScript values that may be undefined or NaN are records [t, v]; a    *)
(* header or a token is a record or a string with an explicit absent value.*)
(***************************************************************************)
EXTENDS Integers, Sequences, FiniteSets, TLC

VARIABLES
    reqIn,        \* request: the transport outcome handed to the current call
    reqOut,       \* request: what the call returned or threw
    maxRetries,   \* withRetry: parameter maxRetries
    initialDelay, \* withRetry: parameter initialDelay (ms)
    run,          \* withRetry: the running call (pc, attempt, lastError, ...)
    twin,         \* withRetry: a second call fed the same outcomes, every
                  \* AUTH_FAILED / NOT_FOUND / API_ERROR failure replaced by
                  \* an unclassified one
    config,       \* the persisted config document (auth record, defaults)
    now,          \* Date.now(), ms
    files,        \* the file system: what each key file path holds
    last,         \* the last credential operation: inputs, result, calls made
    authStatus,   \* what the last getAuthStatus() saw and returned
    cmd,          \* the last resource command: token, exit, requests issued
    login,        \* startOAuthLogin: the callback listener, its timer, the
                  \* promise of waitForOAuthCallback
    api           \* the resource on the server and the last create, update,
                  \* delete or publish command: options, requests sent, exit

vars == <<reqIn, reqOut, maxRetries, initialDelay, run, twin, config, now, files, last,
          authStatus, cmd, login, api>>

----------------------------------------------------------------------------
(* Bounds of the model *)

\* largest maxRetries drawn for a withRetry call
MaxRetriesBound == 3
\* number of seconds the clock may advance
MaxTicks == 3

----------------------------------------------------------------------------
(* JavaScript values *)

Undefined == [t |-> "undefined", v |-> 0]
NaN       == [t |-> "nan", v |-> 0]
Num(n)    == [t |-> "num", v |-> n]

\* truthiness of a number | undefined: undefined, NaN and 0 are falsy
TruthyNum(x) == x.t = "num" /\ x.v # 0

\* Math.pow(2, n) for n >= 0
RECURSIVE Pow2(_)
Pow2(n) == IF n <= 0 THEN 1 ELSE 2 * Pow2(n - 1)

Digits == {"0", "1", "2", "3"}

DigitVal(c) == CASE c = "0" -> 0 [] c = "1" -> 1 [] c = "2" -> 2 [] c = "3" -> 3 [] OTHER -> 0

\* value of the longest prefix of decimal digits of s, acc the value so far
RECURSIVE DigitPrefix(_, _)
DigitPrefix(s, acc) ==
    IF s = <<>> \/ Head(s) \notin Digits THEN acc
    ELSE DigitPrefix(Tail(s), 10 * acc + DigitVal(Head(s)))

\* parseInt(s): optional sign, then the longest run of digits; NaN when
\* there is no digit; anything after the digits is ignored
ParseInt(s) ==
    LET neg  == s # <<>> /\ Head(s) = "-"
        body == IF neg THEN Tail(s) ELSE s
    IN  IF body = <<>> \/ Head(body) \notin Digits THEN NaN
        ELSE Num((IF neg THEN -1 ELSE 1) * DigitPrefix(body, 0))

----------------------------------------------------------------------------
(* request: responses and errors *)

\* options.timeout default (ms)
DefaultTimeout == 30000

NoHeader == [present |-> FALSE, text |-> <<>>]
Header(s) == [present |-> TRUE, text |-> s]

\* retry-after header values: absent, empty, integers, a non-number, a
\* number followed by other text
RetryAfterHeaders ==
    {NoHeader, Header(<<>>), Header(<<"0">>), Header(<<"2">>), Header(<<"1", "0">>),
     Header(<<"x">>), Header(<<"3", "x">>)}

\* response bodies: the text, whether JSON.parse accepts it, and the
\* fields json.error.message and json.message ("undefined" when missing)
EmptyBody  == [text |-> "", json |-> FALSE, errorMessage |-> "undefined", message |-> "undefined"]
ErrMsgBody == [text |-> "{error:{message:E},message:M}", json |-> TRUE, errorMessage |-> "E", message |-> "M"]
MsgBody    == [text |-> "{message:M}", json |-> TRUE, errorMessage |-> "undefined", message |-> "M"]
PlainJson  == [text |-> "{id:1}", json |-> TRUE, errorMessage |-> "undefined", message |-> "undefined"]
TextBody   == [text |-> "oops", json |-> FALSE, errorMessage |-> "undefined", message |-> "undefined"]

Bodies == {EmptyBody, ErrMsgBody, MsgBody, PlainJson, TextBody}

Statuses == {200, 204, 304, 400, 401, 403, 404, 429, 500, 503}

\* what the transport does with one call: a response after latency ms, or
\* a network failure (fetch rejects)
Response(st, h, b, lat) ==
    [kind |-> "response", status |-> st, retryAfter |-> h, body |-> b, latency |-> lat]
NetworkFailure == [kind |-> "network", status |-> 0, retryAfter |-> NoHeader, body |-> EmptyBody, latency |-> 0]

Latencies == {100, DefaultTimeout + 100}

\* new HttpError(message, code, status, retryAfter)
HttpError(message, code, status, retryAfter) ==
    [isHttp |-> TRUE, name |-> "HttpError", message |-> message, code |-> code,
     status |-> status, retryAfter |-> retryAfter]

\* an error that is no HttpError: no code, no status, no retryAfter
PlainError(name) ==
    [isHttp |-> FALSE, name |-> name, message |-> name, code |-> "undefined",
     status |-> 0, retryAfter |-> Undefined]

NoError == PlainError("undefined")

\* the timer set with setTimeout(() => controller.abort(), timeout) fires
\* before the exchange is over
TimerFires(latency, timeout) == latency >= timeout

\* a response.ok that takes every status below 400 for a success
ResponseOkBelow400(status) == status >= 200 /\ status < 400

\* response.ok
ResponseOk(status) == status >= 200 /\ status <= 299

\* retryAfter ? parseInt(retryAfter) : undefined
CapturedRetryAfter(h) ==
    IF h.present /\ h.text # <<>> THEN ParseInt(h.text) ELSE Undefined

\* the API_ERROR message: error.message, then message, then the raw text,
\* then HTTP <status>
ApiErrorMessage(body) ==
    IF body.json
    THEN IF body.errorMessage # "undefined" THEN body.errorMessage
         ELSE IF body.message # "undefined" THEN body.message
         ELSE body.text
    ELSE IF body.text # "" THEN body.text ELSE "HTTP <status>"

Returned(value) == [ok |-> TRUE, value |-> value, error |-> NoError, aborted |-> FALSE]
Threw(error, aborted) == [ok |-> FALSE, value |-> "none", error |-> error, aborted |-> aborted]

\* a request that hands every successful body to JSON.parse, the empty
\* one included
RequestParsesEmpty(o, timeout) ==
    IF o.kind = "network" THEN Threw(PlainError("TypeError"), FALSE)
    ELSE IF TimerFires(o.latency, timeout) THEN Threw(PlainError("AbortError"), TRUE)
    ELSE IF o.status = 429
         THEN Threw(HttpError("Rate limit exceeded", "RATE_LIMITED", 429,
                              CapturedRetryAfter(o.retryAfter)), FALSE)
    ELSE IF o.status = 401 \/ o.status = 403
         THEN Threw(HttpError("Authentication failed", "AUTH_FAILED", o.status, Undefined), FALSE)
    ELSE IF o.status = 404
         THEN Threw(HttpError("Resource not found", "NOT_FOUND", o.status, Undefined), FALSE)
    ELSE IF ~ResponseOk(o.status)
         THEN Threw(HttpError(ApiErrorMessage(o.body), "API_ERROR", o.status, Undefined), FALSE)
    ELSE IF o.body.json THEN Returned(o.body.text)
    ELSE Threw(PlainError("SyntaxError"), FALSE)

\* await request(url, options) with the transport behaving as o
Request(o, timeout) ==
    IF o.kind = "network" THEN Threw(PlainError("TypeError"), FALSE)
    ELSE IF TimerFires(o.latency, timeout) THEN Threw(PlainError("AbortError"), TRUE)
    ELSE IF o.status = 429
         THEN Threw(HttpError("Rate limit exceeded", "RATE_LIMITED", 429,
                              CapturedRetryAfter(o.retryAfter)), FALSE)
    ELSE IF o.status = 401 \/ o.status = 403
         THEN Threw(HttpError("Authentication failed", "AUTH_FAILED", o.status, Undefined), FALSE)
    ELSE IF o.status = 404
         THEN Threw(HttpError("Resource not found", "NOT_FOUND", o.status, Undefined), FALSE)
    ELSE IF ~ResponseOk(o.status)
         THEN Threw(HttpError(ApiErrorMessage(o.body), "API_ERROR", o.status, Undefined), FALSE)
    ELSE IF o.body.text = "" THEN Returned("{}")
    ELSE IF o.body.json THEN Returned(o.body.text)
    ELSE Threw(PlainError("SyntaxError"), FALSE)

----------------------------------------------------------------------------
(* withRetry *)

\* default parameters of withRetry
DefaultMaxRetries == 3
DefaultInitialDelay == 1000

\* sleep() takes milliseconds, retryAfter is in seconds
MsPerSecond == 1000

InitialDelays == {DefaultInitialDelay, 250}

\* the error thrown by the n-th invocation of fn (n tells apart two
\* errors that carry the same fields), and whether that invocation's
\* transport was aborted
Tagged(error, n, aborted) == [err |-> error, seq |-> n, aborted |-> aborted]

\* for (...; attempt <= maxRetries; ...)
LoopCond(attempt, maxR) == attempt <= maxR

\* if (attempt >= maxRetries) break
BreakCond(attempt, maxR) == attempt >= maxR

\* an attempt counter that is never advanced
NextAttemptStuck(attempt) == attempt

\* attempt++
NextAttempt(attempt) == attempt + 1

\* lastError ??= error: only the first failure is kept
RecordFirstError(lastError, error) == IF lastError.seq = 0 THEN error ELSE lastError

\* lastError = error
RecordError(lastError, error) == error

\* error instanceof HttpError && error.retryAfter
UsesRetryAfter(error) == error.isHttp /\ TruthyNum(error.retryAfter)

\* a backoff that grows linearly: initialDelay * (attempt + 1)
BackoffLinear(delay, attempt) == delay * (attempt + 1)

\* initialDelay * Math.pow(2, attempt)
BackoffDelay(delay, attempt) == delay * Pow2(attempt)

\* a sleep that backs off after an HttpError only and retries anything
\* else at once
SleepMsHttpOnly(error, delay, attempt) ==
    IF UsesRetryAfter(error) THEN error.retryAfter.v * MsPerSecond
    ELSE IF error.isHttp THEN BackoffDelay(delay, attempt)
    ELSE 0

\* the argument of the sleep() that follows a failed attempt
SleepMs(error, delay, attempt) ==
    IF UsesRetryAfter(error) THEN error.retryAfter.v * MsPerSecond
    ELSE BackoffDelay(delay, attempt)

\* withRetry entered: attempt = 0, the loop condition checked once
Enter(maxR) ==
    [pc        |-> IF LoopCond(0, maxR) THEN "call" ELSE "thrown",
     attempt   |-> 0,
     calls     |-> 0,
     lastError |-> Tagged(NoError, 0, FALSE),
     errs      |-> <<>>,
     sleeps    |-> <<>>,
     thrown    |-> Tagged(NoError, 0, FALSE),
     value     |-> "none"]

\* the classified kinds that carry no retry-after value
PermanentCodes == {"AUTH_FAILED", "NOT_FOUND", "API_ERROR"}

\* a loop body that gives up at once on AUTH_FAILED, NOT_FOUND and API_ERROR
AttemptStepFailFast(r, res, maxR, delay) ==
    LET n == r.calls + 1
        e == Tagged(res.error, n, res.aborted)
    IN  IF res.ok
        THEN [r EXCEPT !.pc = "returned", !.calls = n, !.value = res.value]
        ELSE IF BreakCond(r.attempt, maxR) \/ res.error.code \in PermanentCodes
        THEN [r EXCEPT !.pc = "thrown", !.calls = n,
                       !.lastError = RecordError(r.lastError, e),
                       !.errs = Append(r.errs, e),
                       !.thrown = RecordError(r.lastError, e)]
        ELSE [r EXCEPT !.pc = "sleep", !.calls = n,
                       !.lastError = RecordError(r.lastError, e),
                       !.errs = Append(r.errs, e),
                       !.sleeps = Append(r.sleeps, SleepMs(res.error, delay, r.attempt))]

\* one pass through the loop body: fn is invoked and ends as res
AttemptStep(r, res, maxR, delay) ==
    LET n == r.calls + 1
        e == Tagged(res.error, n, res.aborted)
    IN  IF res.ok
        THEN [r EXCEPT !.pc = "returned", !.calls = n, !.value = res.value]
        ELSE IF BreakCond(r.attempt, maxR)
        THEN [r EXCEPT !.pc = "thrown", !.calls = n,
                       !.lastError = RecordError(r.lastError, e),
                       !.errs = Append(r.errs, e),
                       !.thrown = RecordError(r.lastError, e)]
        ELSE [r EXCEPT !.pc = "sleep", !.calls = n,
                       !.lastError = RecordError(r.lastError, e),
                       !.errs = Append(r.errs, e),
                       !.sleeps = Append(r.sleeps, SleepMs(res.error, delay, r.attempt))]

\* the sleep is over: attempt++, the loop condition, and throw lastError
\* when the loop ends
WakeStep(r, maxR) ==
    LET a == NextAttempt(r.attempt)
    IN  IF LoopCond(a, maxR)
        THEN [r EXCEPT !.pc = "call", !.attempt = a]
        ELSE [r EXCEPT !.pc = "thrown", !.attempt = a, !.thrown = r.lastError]

\* the same attempt, failing with an error that is no HttpError
GenericFailure(res) ==
    IF ~res.ok /\ res.error.code \in PermanentCodes
    THEN Threw(PlainError("Error"), FALSE)
    ELSE res

\* what the transport may do with an attempt made under withRetry
RetryOutcomes ==
    {Response(200, NoHeader, PlainJson, 100),
     Response(401, NoHeader, EmptyBody, 100),
     Response(404, NoHeader, EmptyBody, 100),
     Response(500, NoHeader, MsgBody, 100),
     Response(429, NoHeader, EmptyBody, 100),
     Response(429, Header(<<"0">>), EmptyBody, 100),
     Response(429, Header(<<"2">>), EmptyBody, 100),
     Response(200, NoHeader, PlainJson, DefaultTimeout + 100),
     NetworkFailure}

IdleRequest == Response(200, NoHeader, EmptyBody, 100)

\* withRetry(() => request(url, options)): fn is invoked once
RetryAttempt ==
    /\ run.pc = "call"
    /\ \E o \in RetryOutcomes :
          LET res == Request(o, DefaultTimeout)
          IN  /\ run' = AttemptStep(run, res, maxRetries, initialDelay)
              /\ twin' = IF twin.pc = "call"
                         THEN AttemptStep(twin, GenericFailure(res), maxRetries, initialDelay)
                         ELSE twin
    /\ UNCHANGED <<api, authStatus, cmd, login, reqIn, reqOut, maxRetries, initialDelay, config, now, files, last>>

\* the timer of sleep() fires
RetryWake ==
    /\ run.pc = "sleep"
    /\ run' = WakeStep(run, maxRetries)
    /\ twin' = IF twin.pc = "sleep" THEN WakeStep(twin, maxRetries) ELSE twin
    /\ UNCHANGED <<api, authStatus, cmd, login, reqIn, reqOut, maxRetries, initialDelay, config, now, files, last>>

----------------------------------------------------------------------------
(* The credential resolver *)

\* a string | undefined: "undefined" stands for the missing value; the
\* empty string and undefined are falsy
TruthyStr(x) == x # "undefined" /\ x # ""

\* Date.now() when the model starts (ms)
StartTime == 5000

\* the auth object of the persisted config, every field optional
NoAuth ==
    [present |-> FALSE, service_account_key_path |-> "undefined", oauth_token |-> "undefined",
     oauth_refresh_token |-> "undefined", oauth_expires_at |-> Undefined,
     client_id |-> "undefined", client_secret |-> "undefined"]

\* { oauth_token, oauth_refresh_token, oauth_expires_at, client_id, client_secret }
OAuthRecord(token, refresh, expiresAt, clientId, clientSecret) ==
    [present |-> TRUE, service_account_key_path |-> "undefined", oauth_token |-> token,
     oauth_refresh_token |-> refresh, oauth_expires_at |-> expiresAt,
     client_id |-> clientId, client_secret |-> clientSecret]

\* { service_account_key_path }
ServiceAccountRecord(path) == [NoAuth EXCEPT !.present = TRUE, !.service_account_key_path = path]

\* config.get('auth')
ConfigGetAuth(cfg) == cfg.auth

\* config.set('auth', value): the auth object is replaced, the rest kept
ConfigSetAuth(cfg, value) == [cfg EXCEPT !.auth = value]

\* key file paths and what a path may hold
Paths == {"key.json", "other.json"}
FileKinds == {"service_account", "other_json", "not_json", "missing"}

\* values of the --access-token flag and of GTM_ACCESS_TOKEN
FlagValues == {"undefined", "", "F"}
EnvValues  == {"undefined", "", "E"}

\* what the token endpoint may answer: access_token, refresh_token, expires_in (s)
AccessTokens == {"A1", "A2"}
RefreshTokens == {"undefined", "R1"}
ExpiresIn == {1, 2}

TokenOk(access, refresh, expiresIn) ==
    [kind |-> "ok", access_token |-> access, refresh_token |-> refresh, expires_in |-> expiresIn]
TokenNotOk == [kind |-> "notok", access_token |-> "undefined", refresh_token |-> "undefined", expires_in |-> 0]
TokenNetworkFailure == [kind |-> "network", access_token |-> "undefined", refresh_token |-> "undefined", expires_in |-> 0]

\* answers to a refresh or a JWT exchange (no refresh_token in them)
ExchangeAnswers ==
    {TokenOk(a, "undefined", x) : a \in AccessTokens, x \in ExpiresIn}
        \cup {TokenNotOk, TokenNetworkFailure}

\* time a call to the token endpoint may take (ms)
Elapsed == {0, MsPerSecond}

\* the outcome of a credential operation: the value returned or that it
\* threw, the calls made to the token endpoint, the config to persist
Outcome(result, threw, calls, cfg) ==
    [result |-> result, threw |-> threw, calls |-> calls, config |-> cfg]

\* auth.oauth_expires_at && Date.now() >= auth.oauth_expires_at
Expired(auth, t) == TruthyNum(auth.oauth_expires_at) /\ t >= auth.oauth_expires_at.v

\* auth.oauth_refresh_token && auth.client_id && auth.client_secret
CanRefresh(auth) ==
    TruthyStr(auth.oauth_refresh_token) /\ TruthyStr(auth.client_id) /\ TruthyStr(auth.client_secret)

\* Date.now() + data.expires_in * 1000
ExpiryFrom(t, expiresIn) == Num(t + expiresIn * MsPerSecond)

\* an auth object made of the refresh answer alone
RefreshedAuthAnswerOnly(auth, data, t) ==
    OAuthRecord(data.access_token, data.refresh_token, ExpiryFrom(t, data.expires_in),
                "undefined", "undefined")

\* the auth object written by a successful refresh
RefreshedAuth(auth, data, t) ==
    [auth EXCEPT !.present = TRUE, !.oauth_token = data.access_token,
                 !.oauth_expires_at = ExpiryFrom(t, data.expires_in)]

\* a refresh that returns the new token and persists nothing
RefreshNotPersisted(cfg, a, t) ==
    IF a.kind # "ok" THEN Outcome("undefined", TRUE, <<"refresh">>, cfg)
    ELSE Outcome(a.access_token, FALSE, <<"refresh">>, cfg)

\* a refresh that writes the answer before it looks at response.ok
RefreshWritesFirst(cfg, a, t) ==
    IF a.kind # "ok"
    THEN Outcome("undefined", TRUE, <<"refresh">>,
                 [cfg EXCEPT !.auth = RefreshedAuth(cfg.auth, a, t)])
    ELSE Outcome(a.access_token, FALSE, <<"refresh">>,
                 [cfg EXCEPT !.auth = RefreshedAuth(cfg.auth, a, t)])

\* refreshOAuthToken: one POST to the token endpoint, answered by a at
\* time t; on success the config is read, merged and written
RefreshOAuthToken(cfg, a, t) ==
    IF a.kind # "ok" THEN Outcome("undefined", TRUE, <<"refresh">>, cfg)
    ELSE Outcome(a.access_token, FALSE, <<"refresh">>,
                 [cfg EXCEPT !.auth = RefreshedAuth(cfg.auth, a, t)])

\* a service-account exchange that keeps the minted token in the record
ServiceAccountTokenCached(cfg, fs, path, a) ==
    IF path \notin DOMAIN fs \/ fs[path] # "service_account"
    THEN Outcome("undefined", TRUE, <<>>, cfg)
    ELSE IF a.kind # "ok" THEN Outcome("undefined", TRUE, <<"jwt">>, cfg)
    ELSE Outcome(a.access_token, FALSE, <<"jwt">>,
                 [cfg EXCEPT !.auth.oauth_token = a.access_token])

\* getServiceAccountToken: the key file is read, parsed and used to sign
\* an assertion, then one POST to the token endpoint; nothing is persisted
GetServiceAccountToken(cfg, fs, path, a) ==
    IF path \notin DOMAIN fs \/ fs[path] # "service_account"
    THEN Outcome("undefined", TRUE, <<>>, cfg)
    ELSE IF a.kind # "ok" THEN Outcome("undefined", TRUE, <<"jwt">>, cfg)
    ELSE Outcome(a.access_token, FALSE, <<"jwt">>, cfg)

\* a resolver that hands out the stored token when it has expired and
\* cannot be refreshed
ResolvePersistedStale(cfg, fs, a, t0, t1) ==
    LET auth == ConfigGetAuth(cfg)
    IN  IF ~auth.present THEN Outcome("undefined", FALSE, <<>>, cfg)
        ELSE IF TruthyStr(auth.service_account_key_path)
             THEN GetServiceAccountToken(cfg, fs, auth.service_account_key_path, a)
        ELSE IF TruthyStr(auth.oauth_token)
             THEN IF Expired(auth, t0) /\ CanRefresh(auth) THEN RefreshOAuthToken(cfg, a, t1)
                  ELSE Outcome(auth.oauth_token, FALSE, <<>>, cfg)
        ELSE Outcome("undefined", FALSE, <<>>, cfg)

\* a resolver that looks at the OAuth fields before the key path
ResolvePersistedOAuthFirst(cfg, fs, a, t0, t1) ==
    LET auth == ConfigGetAuth(cfg)
    IN  IF ~auth.present THEN Outcome("undefined", FALSE, <<>>, cfg)
        ELSE IF TruthyStr(auth.oauth_token)
             THEN IF Expired(auth, t0)
                  THEN IF CanRefresh(auth) THEN RefreshOAuthToken(cfg, a, t1)
                       ELSE Outcome("undefined", FALSE, <<>>, cfg)
                  ELSE Outcome(auth.oauth_token, FALSE, <<>>, cfg)
        ELSE IF TruthyStr(auth.service_account_key_path)
             THEN GetServiceAccountToken(cfg, fs, auth.service_account_key_path, a)
        ELSE Outcome("undefined", FALSE, <<>>, cfg)

\* the branch of resolveAccessToken that reads the persisted record; t0 is
\* Date.now() at the expiry test, t1 when the token endpoint has answered
ResolvePersisted(cfg, fs, a, t0, t1) ==
    LET auth == ConfigGetAuth(cfg)
    IN  IF ~auth.present THEN Outcome("undefined", FALSE, <<>>, cfg)
        ELSE IF TruthyStr(auth.service_account_key_path)
             THEN GetServiceAccountToken(cfg, fs, auth.service_account_key_path, a)
        ELSE IF TruthyStr(auth.oauth_token)
             THEN IF Expired(auth, t0)
                  THEN IF CanRefresh(auth) THEN RefreshOAuthToken(cfg, a, t1)
                       ELSE Outcome("undefined", FALSE, <<>>, cfg)
                  ELSE Outcome(auth.oauth_token, FALSE, <<>>, cfg)
        ELSE Outcome("undefined", FALSE, <<>>, cfg)

\* a resolver that looks at the environment before the flag
ResolveEnvFirst(flagValue, envVal, cfg, fs, a, t0, t1) ==
    IF TruthyStr(envVal) THEN Outcome(envVal, FALSE, <<>>, cfg)
    ELSE IF TruthyStr(flagValue) THEN Outcome(flagValue, FALSE, <<>>, cfg)
    ELSE ResolvePersisted(cfg, fs, a, t0, t1)

\* resolveAccessToken(flagValue) with GTM_ACCESS_TOKEN = envVal
ResolveAccessToken(flagValue, envVal, cfg, fs, a, t0, t1) ==
    IF TruthyStr(flagValue) THEN Outcome(flagValue, FALSE, <<>>, cfg)
    ELSE IF TruthyStr(envVal) THEN Outcome(envVal, FALSE, <<>>, cfg)
    ELSE ResolvePersisted(cfg, fs, a, t0, t1)

\* the token the operation l returned, when l was a resolveAccessToken
\* that refreshed the OAuth token
Refreshed(l) ==
    IF l.op = "resolve" /\ l.calls = <<"refresh">> /\ ~l.threw THEN l.result ELSE "undefined"

\* the record kept of the last credential operation; prev is what the
\* operation before it refreshed, key what the key file of the persisted
\* record held when the operation ran
Op(op, flagValue, envVal, before, out, a, t0, t1, prev, fs) ==
    [op     |-> op,
     prev   |-> prev,
     key    |-> IF before.auth.service_account_key_path \in DOMAIN fs
                THEN fs[before.auth.service_account_key_path] ELSE "none",
     flag   |-> flagValue,
     env    |-> envVal,
     before |-> before.auth,
     result |-> out.result,
     threw  |-> out.threw,
     calls  |-> out.calls,
     wrote  |-> out.config # before,
     answer |-> IF out.calls = <<>> THEN TokenNotOk ELSE a,
     at     |-> t0,
     until  |-> IF out.calls = <<>> THEN t0 ELSE t1]

NoOp == Op("none", "undefined", "undefined", [auth |-> NoAuth, defaults |-> "D"],
           Outcome("undefined", FALSE, <<>>, [auth |-> NoAuth, defaults |-> "D"]),
           TokenNotOk, StartTime, StartTime, "undefined", <<>>)

EndOfTime == StartTime + MaxTicks * MsPerSecond

\* a command resolves its token: resolveAccessToken(flagValue)
Resolve ==
    \E flagValue \in FlagValues, envVal \in EnvValues :
      \* the token endpoint's answer and the time it takes matter only to a
      \* run that calls it
      LET calling == ResolveAccessToken(flagValue, envVal, config, files,
                                        TokenNotOk, now, now).calls # <<>>
      IN
      \E a \in IF calling THEN ExchangeAnswers ELSE {TokenNotOk},
         el \in IF calling THEN Elapsed ELSE {0} :
        LET out == ResolveAccessToken(flagValue, envVal, config, files, a, now, now + el)
            t1  == IF out.calls = <<>> THEN now ELSE now + el
        IN  /\ t1 <= EndOfTime
            /\ config' = out.config
            /\ now' = t1
            /\ last' = Op("resolve", flagValue, envVal, config, out, a, now, t1, Refreshed(last), files)
            /\ UNCHANGED <<api, authStatus, cmd, login, reqIn, reqOut, maxRetries, initialDelay, run, twin, files>>

\* answers to the exchange of an authorization code
CodeAnswers ==
    {TokenOk(x, r, e) : x \in AccessTokens, r \in RefreshTokens, e \in ExpiresIn}
        \cup {TokenNotOk, TokenNetworkFailure}

\* an exchange whose answer is stored without looking at response.ok
ExchangeStoreUnchecked(cfg, a, t1, clientId, clientSecret) ==
    Outcome("undefined", a.kind # "ok", <<"code">>,
            ConfigSetAuth(cfg, OAuthRecord(a.access_token, a.refresh_token,
                                           ExpiryFrom(t1, a.expires_in), clientId, clientSecret)))

\* exchangeCodeForTokens answered by a at time t1, then config.set('auth',
\* ...) when the exchange succeeded; a failed exchange throws before it
ExchangeAndStore(cfg, a, t1, clientId, clientSecret) ==
    IF a.kind # "ok" THEN Outcome("undefined", TRUE, <<"code">>, cfg)
    ELSE Outcome("undefined", FALSE, <<"code">>,
                 ConfigSetAuth(cfg, OAuthRecord(a.access_token, a.refresh_token,
                                                ExpiryFrom(t1, a.expires_in),
                                                clientId, clientSecret)))

\* startOAuthLogin once the callback has delivered a code: the code is
\* exchanged and, when the exchange succeeds, the auth object is set
OAuthLogin ==
    \E a \in CodeAnswers, el \in Elapsed :
        LET t1  == now + el
            out == ExchangeAndStore(config, a, t1, "cid", "sec")
        IN  /\ t1 <= EndOfTime
            /\ config' = out.config
            /\ now' = t1
            /\ last' = Op("login", "undefined", "undefined", config, out, a, now, t1, Refreshed(last), files)
            /\ UNCHANGED <<api, authStatus, cmd, login, reqIn, reqOut, maxRetries, initialDelay, run, twin, files>>

\* a setup that stores the path of any file that parses as JSON
SetupServiceAccountUnchecked ==
    \E path \in Paths :
        LET out == IF files[path] \in {"service_account", "other_json"}
                   THEN Outcome("undefined", FALSE, <<>>,
                                ConfigSetAuth(config, ServiceAccountRecord(path)))
                   ELSE Outcome("undefined", TRUE, <<>>, config)
        IN  /\ config' = out.config
            /\ last' = [Op("setup", path, "undefined", config, out, TokenNotOk, now, now,
                           Refreshed(last), files) EXCEPT !.key = files[path]]
            /\ UNCHANGED <<api, authStatus, cmd, login, reqIn, reqOut, maxRetries, initialDelay, run,
                           twin, files, now>>

\* a setup that adds the path to the auth object already stored
SetupServiceAccountMerged ==
    \E path \in Paths :
        LET out == IF files[path] = "service_account"
                   THEN Outcome("undefined", FALSE, <<>>,
                                ConfigSetAuth(config,
                                    [config.auth EXCEPT !.present = TRUE,
                                                        !.service_account_key_path = path]))
                   ELSE Outcome("undefined", TRUE, <<>>, config)
        IN  /\ config' = out.config
            /\ last' = [Op("setup", path, "undefined", config, out, TokenNotOk, now, now,
                           Refreshed(last), files) EXCEPT !.key = files[path]]
            /\ UNCHANGED <<api, authStatus, cmd, login, reqIn, reqOut, maxRetries, initialDelay, run,
                           twin, files, now>>

\* setupServiceAccount(keyFilePath): the path is stored when the file
\* parses and has type service_account, the process exits otherwise; the
\* record of the operation keeps the path given and what that file held
SetupServiceAccount ==
    \E path \in Paths :
        LET out == IF files[path] = "service_account"
                   THEN Outcome("undefined", FALSE, <<>>,
                                ConfigSetAuth(config, ServiceAccountRecord(path)))
                   ELSE Outcome("undefined", TRUE, <<>>, config)
        IN  /\ config' = out.config
            /\ last' = [Op("setup", path, "undefined", config, out, TokenNotOk, now, now,
                           Refreshed(last), files) EXCEPT !.key = files[path]]
            /\ UNCHANGED <<api, authStatus, cmd, login, reqIn, reqOut, maxRetries, initialDelay, run, twin, files, now>>

\* the user replaces or removes the key file
KeyFileChange ==
    \E path \in {"key.json"}, k \in FileKinds :
        /\ files[path] # k
        /\ files' = [files EXCEPT ![path] = k]
        /\ UNCHANGED <<api, authStatus, cmd, login, reqIn, reqOut, maxRetries, initialDelay, run, twin, config, now, last>>

\* a second passes
Tick ==
    /\ now + MsPerSecond <= EndOfTime
    /\ now' = now + MsPerSecond
    /\ UNCHANGED <<api, authStatus, cmd, login, reqIn, reqOut, maxRetries, initialDelay, run, twin, config, files, last>>

\* config.clear(): the credential record is erased
ConfigClear(cfg) == [cfg EXCEPT !.auth = NoAuth]

\* a logout that reports success and erases nothing
LogoutKeepsRecord ==
    LET out == Outcome("undefined", FALSE, <<>>, config)
    IN  /\ config' = out.config
        /\ last' = Op("logout", "undefined", "undefined", config, out, TokenNotOk, now, now,
                      Refreshed(last), files)
        /\ UNCHANGED <<api, authStatus, cmd, login, reqIn, reqOut, maxRetries, initialDelay, run, twin,
                       files, now>>

\* gtm auth logout
Logout ==
    LET out == Outcome("undefined", FALSE, <<>>, ConfigClear(config))
    IN  /\ config' = out.config
        /\ last' = Op("logout", "undefined", "undefined", config, out, TokenNotOk, now, now,
                      Refreshed(last), files)
        /\ UNCHANGED <<api, authStatus, cmd, login, reqIn, reqOut, maxRetries, initialDelay, run, twin,
                       files, now>>

----------------------------------------------------------------------------
(* getAuthStatus *)

\* no status has been asked for
NoStatus == [taken |-> FALSE, seen |-> NoAuth, at |-> StartTime, key |-> "none",
             method |-> "null", details |-> "null"]

\* readFileSync and JSON.parse of the key file succeed
KeyFileParses(fs, path) == path \in DOMAIN fs /\ fs[path] \in {"service_account", "other_json"}

\* a status that takes the token for expired only after the expiry time
GetAuthStatusLate(cfg, fs, t) ==
    LET auth == ConfigGetAuth(cfg)
    IN  IF ~auth.present THEN [method |-> "null", details |-> "null"]
        ELSE IF TruthyStr(auth.service_account_key_path)
             THEN IF KeyFileParses(fs, auth.service_account_key_path)
                  THEN [method  |-> "Service Account",
                        details |-> IF fs[auth.service_account_key_path] = "service_account"
                                    THEN "client_email" ELSE "undefined"]
                  ELSE [method |-> "Service Account", details |-> "unreadable"]
        ELSE IF TruthyStr(auth.oauth_token)
             THEN [method  |-> "OAuth2",
                   details |-> IF TruthyNum(auth.oauth_expires_at) /\ t > auth.oauth_expires_at.v
                               THEN IF TruthyStr(auth.oauth_refresh_token)
                                    THEN "Token expired (will auto-refresh)"
                                    ELSE "Token expired (no refresh token)"
                               ELSE "Token valid"]
        ELSE [method |-> "null", details |-> "null"]

\* getAuthStatus() at time t: { method, details } or null
GetAuthStatus(cfg, fs, t) ==
    LET auth == ConfigGetAuth(cfg)
    IN  IF ~auth.present THEN [method |-> "null", details |-> "null"]
        ELSE IF TruthyStr(auth.service_account_key_path)
             THEN IF KeyFileParses(fs, auth.service_account_key_path)
                  THEN [method  |-> "Service Account",
                        details |-> IF fs[auth.service_account_key_path] = "service_account"
                                    THEN "client_email" ELSE "undefined"]
                  ELSE [method |-> "Service Account", details |-> "unreadable"]
        ELSE IF TruthyStr(auth.oauth_token)
             THEN [method  |-> "OAuth2",
                   details |-> IF Expired(auth, t)
                               THEN IF TruthyStr(auth.oauth_refresh_token)
                                    THEN "Token expired (will auto-refresh)"
                                    ELSE "Token expired (no refresh token)"
                               ELSE "Token valid"]
        ELSE [method |-> "null", details |-> "null"]

\* gtm auth status
Status ==
    LET st == GetAuthStatus(config, files, now)
        p  == config.auth.service_account_key_path
    IN  /\ authStatus' = [taken |-> TRUE, seen |-> config.auth, at |-> now,
                      key |-> IF p \in DOMAIN files THEN files[p] ELSE "none",
                      method |-> st.method, details |-> st.details]
        /\ UNCHANGED <<api, cmd, login, reqIn, reqOut, maxRetries, initialDelay, run, twin,
                       config, now, files, last>>

----------------------------------------------------------------------------
(* A resource command: requireAccessToken, then withRetry(request) *)

NoCmd == [ran |-> FALSE, resolves |-> 0, token |-> "undefined", exit |-> 0,
          uncaught |-> FALSE, requests |-> 0]

\* a requireAccessToken that hands back whatever resolveAccessToken gave
RequireNoExit(out) ==
    [resolves |-> 1, threw |-> out.threw, exits |-> FALSE, token |-> out.result]

\* requireAccessToken(flagValue): resolveAccessToken is awaited once and
\* the process exits with status 1 when the token is falsy
RequireAccessToken(out) ==
    [resolves |-> 1, threw |-> out.threw,
     exits    |-> ~out.threw /\ ~TruthyStr(out.result),
     token    |-> out.result]

\* withRetry(() => request(...)) run to its end, the transport answering
\* the attempts with outs in turn
RECURSIVE RunWithRetry(_, _, _, _)
RunWithRetry(r, outs, maxR, delay) ==
    IF r.pc = "call" /\ outs # <<>>
    THEN RunWithRetry(AttemptStep(r, Request(Head(outs), DefaultTimeout), maxR, delay),
                      Tail(outs), maxR, delay)
    ELSE IF r.pc = "sleep" THEN RunWithRetry(WakeStep(r, maxR), outs, maxR, delay)
    ELSE r

\* what the transport answers to the attempts of one command
\* the first k attempts are answered 401, the later ones 200; or no attempt
\* reaches the server
CommandTransports ==
    {[i \in 1..(DefaultMaxRetries + 1) |->
        IF i <= k THEN Response(401, NoHeader, EmptyBody, 100)
        ELSE Response(200, NoHeader, PlainJson, 100)] : k \in {0, 1, DefaultMaxRetries + 1}}
      \cup {[i \in 1..(DefaultMaxRetries + 1) |-> NetworkFailure]}

\* withRetry(() => request(url, { headers })) with the default maxRetries
\* and initialDelay, for each of these transports
CommandRuns ==
    [outs \in CommandTransports |->
        RunWithRetry(Enter(DefaultMaxRetries), outs, DefaultMaxRetries, DefaultInitialDelay)]

\* gtm accounts list: the token is required, the request made under
\* withRetry; an HttpError ends the process with status 1, any other
\* error is thrown again
AccountsList ==
    \E flagValue \in FlagValues, envVal \in EnvValues :
      LET probe   == ResolveAccessToken(flagValue, envVal, config, files, TokenNotOk, now, now)
          calling == probe.calls # <<>>
      IN
      \E a \in IF calling THEN ExchangeAnswers ELSE {TokenNotOk},
         el \in IF calling THEN Elapsed ELSE {0} :
        LET out == ResolveAccessToken(flagValue, envVal, config, files, a, now, now + el)
            t1  == IF out.calls = <<>> THEN now ELSE now + el
            req == RequireAccessToken(out)
            proceeds == ~req.threw /\ ~req.exits
        IN
        \E outs \in IF proceeds THEN CommandTransports
                    ELSE {[i \in 1..(DefaultMaxRetries + 1) |-> NetworkFailure]} :
          LET r == IF proceeds THEN CommandRuns[outs]
                   ELSE [Enter(DefaultMaxRetries) EXCEPT !.pc = "idle"]
          IN  /\ t1 <= EndOfTime
              /\ config' = out.config
              /\ now' = t1
              /\ last' = Op("resolve", flagValue, envVal, config, out, a, now, t1,
                            Refreshed(last), files)
              /\ cmd' = [ran      |-> TRUE,
                         resolves |-> req.resolves,
                         token    |-> req.token,
                         exit     |-> IF req.exits \/ (r.pc = "thrown" /\ r.thrown.err.isHttp)
                                      THEN 1 ELSE 0,
                         uncaught |-> req.threw \/ (r.pc = "thrown" /\ ~r.thrown.err.isHttp),
                         requests |-> r.calls]
              /\ UNCHANGED <<api, authStatus, login, reqIn, reqOut, maxRetries, initialDelay, run, twin,
                             files>>

----------------------------------------------------------------------------
(* startOAuthLogin and the callback listener of waitForOAuthCallback *)

\* the state value generated for this login and the code the provider issues
ExpectedState == "S"

\* setTimeout(..., 5 * 60 * 1000)
LoginTimeoutMs == 5 * 60 * MsPerSecond

MsPerMinute == 60 * MsPerSecond

\* minutes the model lets pass during logins
MaxLoginMinutes == 7

LoginEnd == StartTime + MaxLoginMinutes * MsPerMinute

\* a request to the listener: the query parameters of its url, null being
\* "undefined"; malformed is a url that new URL() does not accept
NoCallback == [kind |-> "none", malformed |-> FALSE, code |-> "undefined",
               state |-> "undefined", error |-> "undefined"]

Callback(code, state, error) ==
    [kind |-> "callback", malformed |-> FALSE, code |-> code, state |-> state, error |-> error]

MalformedCallback == [NoCallback EXCEPT !.kind = "callback", !.malformed = TRUE]

TimerEvent == [NoCallback EXCEPT !.kind = "timeout"]

ListenError == [NoCallback EXCEPT !.kind = "listen"]

Callbacks ==
    {Callback(c, s, e) : c \in {"undefined", "", "c"}, s \in {"undefined", ExpectedState, "X"},
                         e \in {"undefined", "denied"}}
        \cup {MalformedCallback}

\* no login is running
NoLogin ==
    [pc        |-> "idle",       \* idle, waiting, exchange, done, failed
     listening |-> FALSE,        \* the server accepts requests
     timer     |-> "none",       \* none, pending, fired
     settled   |-> "none",       \* the promise: none, resolved, rejected
     settledBy |-> NoCallback,   \* the event that settled it
     code      |-> "undefined",  \* the code it resolved with
     startedAt |-> StartTime,
     before    |-> NoAuth,       \* the credential record when the login began
     lastCb    |-> NoCallback,   \* the last request the listener handled
     stray     |-> FALSE,        \* a request was answered 400 and ignored
     valid     |-> 0,            \* requests answered 200
     exchanges |-> 0]            \* calls of exchangeCodeForTokens

\* resolve(value) or reject(error): only the first one settles the promise,
\* and the awaiting startOAuthLogin goes on or throws
Settle(l, how, by, code) ==
    IF l.settled # "none" THEN l
    ELSE [l EXCEPT !.settled = how, !.settledBy = by, !.code = code,
                   !.pc = IF how = "resolved" THEN "exchange" ELSE "failed"]

\* server.close()
CloseServer(l) == [l EXCEPT !.listening = FALSE]

\* waitForOAuthCallback entered: the server is created and listens, the
\* timer is set; a port in use makes the server emit 'error'
StartListening(auth, t, portFree) ==
    LET l == [NoLogin EXCEPT !.pc = "waiting", !.timer = "pending", !.startedAt = t,
                             !.before = auth]
    IN  IF portFree THEN [l EXCEPT !.listening = TRUE]
        ELSE Settle(l, "rejected", ListenError, "undefined")

\* the request handler of the listener
HandleCallback(l, cb) ==
    LET h == [l EXCEPT !.lastCb = cb]
    IN  IF cb.malformed THEN Settle(CloseServer(h), "rejected", cb, "undefined")
        ELSE IF TruthyStr(cb.error) THEN Settle(CloseServer(h), "rejected", cb, "undefined")
        ELSE IF cb.state # ExpectedState THEN [h EXCEPT !.stray = TRUE]
        ELSE IF ~TruthyStr(cb.code) THEN [h EXCEPT !.stray = TRUE]
        ELSE Settle(CloseServer([h EXCEPT !.valid = @ + 1]), "resolved", cb, cb.code)

\* a timer callback that rejects and leaves the server open
OnTimeoutNoClose(l) == Settle([l EXCEPT !.timer = "fired"], "rejected", TimerEvent, "undefined")

\* the callback of the five-minute timer
OnTimeout(l) ==
    Settle(CloseServer([l EXCEPT !.timer = "fired"]), "rejected", TimerEvent, "undefined")

\* when the pending timer is due
Deadline(l) == l.startedAt + LoginTimeoutMs

\* gtm auth login with a client id and secret: startOAuthLogin up to the
\* await of waitForOAuthCallback; the process of an earlier login has ended
LoginStart ==
    /\ login.pc \in {"idle", "done", "failed"}
    /\ login.timer # "pending"
    /\ now < LoginEnd
    /\ \E portFree \in BOOLEAN :
          login' = StartListening(ConfigGetAuth(config), now, portFree)
    /\ UNCHANGED <<api, authStatus, cmd, reqIn, reqOut, maxRetries, initialDelay, run, twin, config,
                   now, files, last>>

\* a request reaches the listener
LoginCallback ==
    /\ login.listening
    /\ \E cb \in Callbacks : login' = HandleCallback(login, cb)
    /\ UNCHANGED <<api, authStatus, cmd, reqIn, reqOut, maxRetries, initialDelay, run, twin, config,
                   now, files, last>>

\* the five-minute timer fires
LoginTimeout ==
    /\ login.timer = "pending"
    /\ now >= Deadline(login)
    /\ login' = OnTimeout(login)
    /\ UNCHANGED <<api, authStatus, cmd, reqIn, reqOut, maxRetries, initialDelay, run, twin, config,
                   now, files, last>>

\* startOAuthLogin after the await: the code is exchanged and the record set
LoginExchange ==
    /\ login.pc = "exchange"
    /\ \E a \in CodeAnswers, el \in Elapsed :
        LET t1  == now + el
            out == ExchangeAndStore(config, a, t1, "cid", "sec")
        IN  /\ login.timer = "pending" => t1 <= Deadline(login)
            /\ config' = out.config
            /\ now' = t1
            /\ last' = Op("login", "undefined", "undefined", config, out, a, now, t1,
                          Refreshed(last), files)
            /\ login' = [login EXCEPT !.pc = IF out.threw THEN "failed" ELSE "done",
                                      !.exchanges = @ + 1]
    /\ UNCHANGED <<api, authStatus, cmd, reqIn, reqOut, maxRetries, initialDelay, run, twin, files>>

\* a minute passes, or what is left until the pending timer is due
LoginMinute ==
    /\ now < LoginEnd
    /\ login.timer = "pending" => now < Deadline(login)
    /\ now' = IF login.timer = "pending" /\ now + MsPerMinute > Deadline(login)
              THEN Deadline(login) ELSE now + MsPerMinute
    /\ UNCHANGED <<api, authStatus, cmd, login, reqIn, reqOut, maxRetries, initialDelay, run, twin,
                   config, files, last>>

----------------------------------------------------------------------------
(* Commands that change a resource: create, update, delete, publish *)

\* a container as the API returns it; fingerprint stands for the fields no
\* option of the command names
Resource(name, notes, domainName) ==
    [name |-> name, notes |-> notes, domainName |-> domainName, fingerprint |-> "f0"]

InitialResource == Resource("n0", "t0", "d0")

\* --name, --notes, --domain-name of containers update, each optional
NoOptions == [name |-> "undefined", notes |-> "undefined", domainName |-> "undefined"]

UpdateOptions ==
    {[name |-> n, notes |-> t, domainName |-> d] :
        n \in {"undefined", "", "N"}, t \in {"undefined", "", "T"}, d \in {"undefined", "d"}}

\* a PUT body made of the options alone
UpdateBodyFromOptions(current, o) ==
    [name |-> o.name, notes |-> o.notes, domainName |-> o.domainName,
     fingerprint |-> "undefined"]

\* body = { ...current }, then if (options.name), if (options.notes !==
\* undefined), if (options.domainName)
UpdateBody(current, o) ==
    [current EXCEPT !.name = IF TruthyStr(o.name) THEN o.name ELSE @,
                    !.notes = IF o.notes # "undefined" THEN o.notes ELSE @,
                    !.domainName = IF TruthyStr(o.domainName) THEN o.domainName ELSE @]

\* one attempt as the server and the transport see it: whether the server
\* carried the request out, and what came back to fetch
Attempt(applied, o) == [applied |-> applied, o |-> o]

Served == Attempt(TRUE, Response(200, NoHeader, PlainJson, 100))

\* the attempts of one withRetry: all served; the first served but its
\* response later than the timeout; the first served but the connection
\* lost before the response; the first never reaching the server; all
\* answered 500; all answered 404
ResourceTransports ==
    {[i \in 1..(DefaultMaxRetries + 1) |-> IF i = 1 THEN first ELSE Served] :
        first \in {Served,
                   Attempt(TRUE, Response(200, NoHeader, PlainJson, DefaultTimeout + 100)),
                   Attempt(TRUE, NetworkFailure),
                   Attempt(FALSE, NetworkFailure)}}
      \cup {[i \in 1..(DefaultMaxRetries + 1) |->
                Attempt(FALSE, Response(st, NoHeader, MsgBody, 100))] : st \in {500, 404}}

\* the transports tried for the GET of an update
FetchTransports ==
    {t \in ResourceTransports : t[1] \in {Served, Attempt(FALSE, NetworkFailure),
                                          Attempt(FALSE, Response(404, NoHeader, MsgBody, 100))}}

NoTransport == [i \in 1..(DefaultMaxRetries + 1) |-> Attempt(FALSE, NetworkFailure)]

\* withRetry(() => request(url, { method, headers, body })) against the
\* attempts t: the run, and how many of the attempts made the server
\* carried out
Exchange(t) ==
    LET r == RunWithRetry(Enter(DefaultMaxRetries), [i \in DOMAIN t |-> t[i].o],
                          DefaultMaxRetries, DefaultInitialDelay)
    IN  [ok       |-> r.pc = "returned",
         attempts |-> r.calls,
         applied  |-> Cardinality({i \in 1..r.calls : t[i].applied}),
         exit     |-> IF r.pc = "thrown" /\ r.thrown.err.isHttp THEN 1 ELSE 0,
         uncaught |-> r.pc = "thrown" /\ ~r.thrown.err.isHttp]

Exchanges == [t \in ResourceTransports |-> Exchange(t)]

\* n requests of one method to one url
Requests(method, url, n) == [i \in 1..n |-> <<method, url>>]

\* no command has run
NoApi ==
    [resource  |-> InitialResource,
     kind      |-> "none",       \* create, update, delete, publish
     dryRun    |-> FALSE,
     opts      |-> NoOptions,
     sent      |-> <<>>,         \* the requests of the command, in order
     fetched   |-> FALSE,        \* the GET of an update returned
     current   |-> InitialResource,
     body      |-> InitialResource,
     applied   |-> 0,            \* requests of the command the server carried
                                 \* out: resources created, for a create
     exit      |-> 0,
     uncaught  |-> FALSE]

\* the command as it begins
Begin(kind, dryRun, opts) ==
    [api EXCEPT !.kind = kind, !.dryRun = dryRun, !.opts = opts,
                !.sent = <<>>, !.fetched = FALSE, !.current = InitialResource,
                !.body = InitialResource, !.applied = 0, !.exit = 0, !.uncaught = FALSE]

\* requireAccessToken(options.accessToken), then resolveAccountId(...):
\* TRUE when both return
Authorized(flagValue, hasId) ==
    LET req == RequireAccessToken(ResolveAccessToken(flagValue, "undefined", config, files,
                                                     TokenNotOk, now, now))
    IN  ~req.threw /\ ~req.exits /\ hasId

\* containers create
ContainersCreate ==
    \E flagValue \in {"undefined", "F"}, hasId \in BOOLEAN, dryRun \in BOOLEAN :
      LET b    == Begin("create", dryRun, [NoOptions EXCEPT !.name = "N"])
          goes == Authorized(flagValue, hasId) /\ ~dryRun
      IN
      \E t \in IF goes THEN ResourceTransports ELSE {NoTransport} :
        LET x == IF goes THEN Exchanges[t] ELSE Exchange(<<>>)
        IN  /\ api' = IF ~Authorized(flagValue, hasId) THEN [b EXCEPT !.exit = 1]
                      ELSE IF dryRun THEN b
                      ELSE [b EXCEPT !.sent = Requests("POST", "containers", x.attempts),
                                     !.applied = x.applied,
                                     !.exit = x.exit, !.uncaught = x.uncaught]
            /\ UNCHANGED <<authStatus, cmd, login, reqIn, reqOut, maxRetries, initialDelay,
                           run, twin, config, now, files, last>>

\* containers update
ContainersUpdate ==
    \E flagValue \in {"undefined", "F"}, hasId \in BOOLEAN, dryRun \in BOOLEAN,
       o \in UpdateOptions :
      LET b    == Begin("update", dryRun, o)
          goes == Authorized(flagValue, hasId)
      IN
      \E tg \in IF goes THEN FetchTransports ELSE {NoTransport} :
        LET g    == IF goes THEN Exchanges[tg] ELSE Exchange(<<>>)
            puts == goes /\ g.ok /\ ~dryRun
            body == UpdateBody(api.resource, o)
            gets == Requests("GET", "containers/1", g.attempts)
        IN
        \E tp \in IF puts THEN ResourceTransports ELSE {NoTransport} :
          LET p == IF puts THEN Exchanges[tp] ELSE Exchange(<<>>)
          IN  /\ api' = IF ~goes THEN [b EXCEPT !.exit = 1]
                        ELSE IF ~g.ok
                        THEN [b EXCEPT !.sent = gets, !.exit = g.exit,
                                       !.uncaught = g.uncaught]
                        ELSE IF dryRun
                        THEN [b EXCEPT !.sent = gets, !.fetched = TRUE,
                                       !.current = api.resource, !.body = body]
                        ELSE [b EXCEPT !.sent = gets \o Requests("PUT", "containers/1",
                                                                 p.attempts),
                                       !.fetched = TRUE,
                                       !.current = api.resource, !.body = body,
                                       !.resource = IF p.applied > 0 THEN body ELSE @,
                                       !.applied = p.applied,
                                       !.exit = p.exit, !.uncaught = p.uncaught]
              /\ UNCHANGED <<authStatus, cmd, login, reqIn, reqOut, maxRetries, initialDelay,
                             run, twin, config, now, files, last>>

\* a delete that sends its request before it looks at --dry-run
ContainersDeleteNoPreview ==
    \E flagValue \in {"undefined", "F"}, hasId \in BOOLEAN, dryRun \in BOOLEAN :
      LET b    == Begin("delete", dryRun, NoOptions)
          goes == Authorized(flagValue, hasId)
      IN
      \E t \in IF goes THEN ResourceTransports ELSE {NoTransport} :
        LET x == IF goes THEN Exchanges[t] ELSE Exchange(<<>>)
        IN  /\ api' = IF ~Authorized(flagValue, hasId) THEN [b EXCEPT !.exit = 1]
                      ELSE [b EXCEPT !.sent = Requests("DELETE", "containers/1", x.attempts),
                                     !.applied = x.applied,
                                     !.exit = x.exit, !.uncaught = x.uncaught]
            /\ UNCHANGED <<authStatus, cmd, login, reqIn, reqOut, maxRetries, initialDelay,
                           run, twin, config, now, files, last>>

\* containers delete
ContainersDelete ==
    \E flagValue \in {"undefined", "F"}, hasId \in BOOLEAN, dryRun \in BOOLEAN :
      LET b    == Begin("delete", dryRun, NoOptions)
          goes == Authorized(flagValue, hasId) /\ ~dryRun
      IN
      \E t \in IF goes THEN ResourceTransports ELSE {NoTransport} :
        LET x == IF goes THEN Exchanges[t] ELSE Exchange(<<>>)
        IN  /\ api' = IF ~Authorized(flagValue, hasId) THEN [b EXCEPT !.exit = 1]
                      ELSE IF dryRun THEN b
                      ELSE [b EXCEPT !.sent = Requests("DELETE", "containers/1", x.attempts),
                                     !.applied = x.applied,
                                     !.exit = x.exit, !.uncaught = x.uncaught]
            /\ UNCHANGED <<authStatus, cmd, login, reqIn, reqOut, maxRetries, initialDelay,
                           run, twin, config, now, files, last>>

\* versions publish
VersionsPublish ==
    \E flagValue \in {"undefined", "F"}, hasId \in BOOLEAN, dryRun \in BOOLEAN :
      LET b    == Begin("publish", dryRun, NoOptions)
          goes == Authorized(flagValue, hasId) /\ ~dryRun
      IN
      \E t \in IF goes THEN ResourceTransports ELSE {NoTransport} :
        LET x == IF goes THEN Exchanges[t] ELSE Exchange(<<>>)
        IN  /\ api' = IF ~Authorized(flagValue, hasId) THEN [b EXCEPT !.exit = 1]
                      ELSE IF dryRun THEN b
                      ELSE [b EXCEPT !.sent = Requests("POST", "versions/1:publish",
                                                       x.attempts),
                                     !.applied = x.applied,
                                     !.exit = x.exit, !.uncaught = x.uncaught]
            /\ UNCHANGED <<authStatus, cmd, login, reqIn, reqOut, maxRetries, initialDelay,
                           run, twin, config, now, files, last>>

----------------------------------------------------------------------------
(* request as a step *)

RequestOutcomes ==
    {Response(st, h, b, lat) : st \in Statuses, h \in RetryAfterHeaders, b \in Bodies,
                               lat \in Latencies} \cup {NetworkFailure}

Pending == [done |-> FALSE, res |-> Returned("none")]

\* request(url, options) runs against the transport outcome reqIn
DoRequest ==
    /\ ~reqOut.done
    /\ reqOut' = [done |-> TRUE, res |-> Request(reqIn, DefaultTimeout)]
    /\ UNCHANGED <<api, authStatus, cmd, login, reqIn, maxRetries, initialDelay, run, twin, config, now, files, last>>

----------------------------------------------------------------------------
(* Specifications *)

InitAuthIdle ==
    /\ config = [auth |-> NoAuth, defaults |-> "D"]
    /\ now = StartTime
    /\ files = [p \in Paths |-> IF p = "key.json" THEN "service_account" ELSE "other_json"]
    /\ last = NoOp
    /\ authStatus = NoStatus
    /\ cmd = NoCmd
    /\ login = NoLogin
    /\ api = NoApi

InitRetryIdle ==
    /\ maxRetries = 0
    /\ initialDelay = DefaultInitialDelay
    /\ run = [Enter(0) EXCEPT !.pc = "idle"]
    /\ twin = [Enter(0) EXCEPT !.pc = "idle"]

InitRequestIdle ==
    /\ reqIn = IdleRequest
    /\ reqOut = [done |-> TRUE, res |-> Returned("none")]

\* one call of request, for every transport outcome
InitRequest ==
    /\ reqIn \in RequestOutcomes
    /\ reqOut = Pending
    /\ InitRetryIdle
    /\ InitAuthIdle

NextRequest == DoRequest

SpecRequest == InitRequest /\ [][NextRequest]_vars

\* one call of withRetry(() => request(...), maxRetries, initialDelay)
InitRetry ==
    /\ InitRequestIdle
    /\ maxRetries \in 0..MaxRetriesBound
    /\ initialDelay \in InitialDelays
    /\ run = Enter(maxRetries)
    /\ twin = Enter(maxRetries)
    /\ InitAuthIdle

NextRetry == RetryAttempt \/ RetryWake

SpecRetry == InitRetry /\ [][NextRetry]_vars

\* the credential operations of successive command invocations
InitAuth ==
    /\ InitRequestIdle
    /\ InitRetryIdle
    /\ InitAuthIdle

NextAuth == Resolve \/ OAuthLogin \/ SetupServiceAccount \/ Logout \/ KeyFileChange \/ Tick

SpecAuth == InitAuth /\ [][NextAuth]_vars

\* a credential record that holds a key path and OAuth fields at once: no
\* operation writes one, the config file was edited by hand
EditedAuths ==
    {[OAuthRecord("A0", r, x, "cid", "sec") EXCEPT !.service_account_key_path = "key.json"] :
        r \in RefreshTokens, x \in {Num(StartTime), Num(EndOfTime + MsPerSecond)}}

InitEdited ==
    /\ InitRequestIdle
    /\ InitRetryIdle
    /\ \E e \in EditedAuths : config = [auth |-> e, defaults |-> "D"]
    /\ now = StartTime
    /\ files = [p \in Paths |-> IF p = "key.json" THEN "service_account" ELSE "other_json"]
    /\ last = NoOp
    /\ authStatus = NoStatus
    /\ cmd = NoCmd
    /\ login = NoLogin
    /\ api = NoApi

\* commands run against the edited record
NextEdited == Resolve \/ Status \/ KeyFileChange

SpecEdited == InitEdited /\ [][NextEdited]_vars

\* credential records left by earlier invocations: none, a login without
\* and with a refresh token, a service-account setup
CommandAuths ==
    {NoAuth, ServiceAccountRecord("key.json")}
        \cup {OAuthRecord("A1", r, ExpiryFrom(StartTime, 1), "cid", "sec") : r \in RefreshTokens}

InitCommand ==
    /\ InitRequestIdle
    /\ InitRetryIdle
    /\ \E c \in CommandAuths : config = [auth |-> c, defaults |-> "D"]
    /\ now = StartTime
    /\ files = [p \in Paths |-> IF p = "key.json" THEN "service_account" ELSE "other_json"]
    /\ last = NoOp
    /\ authStatus = NoStatus
    /\ cmd = NoCmd
    /\ login = NoLogin
    /\ api = NoApi

\* resource commands, one invocation after the other
NextCommand == AccountsList \/ Tick

SpecCommand == InitCommand /\ [][NextCommand]_vars

\* status and resolve calls on the records earlier invocations left
NextStatus == Status \/ Resolve \/ Tick

SpecStatus == InitCommand /\ [][NextStatus]_vars

\* create, update, delete and publish commands, one after the other
NextResource == ContainersCreate \/ ContainersUpdate \/ ContainersDelete \/ VersionsPublish

SpecResource == InitAuth /\ [][NextResource]_vars

\* interactive logins, one after the other
NextLogin == LoginStart \/ LoginCallback \/ LoginTimeout \/ LoginExchange \/ LoginMinute

SpecLogin == InitAuth /\ [][NextLogin]_vars

----------------------------------------------------------------------------
(* Properties of withRetry and request *)

\* the failed attempts, by one-based index
Failed == 1..Len(run.errs)

\* the attempts followed by a sleep
Slept == 1..Len(run.sleeps)

\* C1: withRetry invokes the operation at most maxRetries + 1 times, and
\* exactly maxRetries + 1 times when every attempt fails (it then throws).
C1_InvocationBound ==
    /\ run.calls <= maxRetries + 1
    /\ run.pc = "thrown" =>
          /\ run.calls = maxRetries + 1
          /\ Len(run.errs) = maxRetries + 1
    /\ maxRetries = DefaultMaxRetries => run.calls <= 4

C1_Witness ==
    /\ maxRetries = DefaultMaxRetries
    /\ run.pc = "thrown"
    /\ run.calls = 4

\* C2: when every attempt fails, the error withRetry throws is the very
\* error the final attempt raised: same object, same fields.
C2_ThrowsLastError ==
    run.pc = "thrown" =>
        /\ run.errs # <<>>
        /\ run.thrown = run.errs[Len(run.errs)]
        /\ run.thrown.seq = run.calls
        /\ run.thrown = run.lastError

C2_Witness ==
    /\ run.pc = "thrown"
    /\ Len(run.errs) >= 3
    /\ run.errs[1].err.code = "RATE_LIMITED"
    /\ run.errs[2].err.code = "AUTH_FAILED"
    /\ run.thrown.err.code = "NOT_FOUND"
    /\ run.thrown.err.status = 404

\* C3 (as claimed): after a RATE_LIMITED failure carrying the integer
\* retry-after value r, the sleep before the next attempt is r * 1000 ms,
\* whatever r is.
C3_RetryAfterHonoured ==
    \A i \in Slept :
        (run.errs[i].err.code = "RATE_LIMITED" /\ run.errs[i].err.retryAfter.t = "num")
            => run.sleeps[i] = run.errs[i].err.retryAfter.v * 1000

\* C4: after a failure that carries no retry-after value, attempt k
\* (zero-based) not being the last, the sleep is initialDelay * 2^k ms:
\* 1000, 2000, 4000 with the defaults.
C4_ExponentialBackoff ==
    /\ \A i \in Failed : i <= maxRetries => i \in Slept
    /\ \A i \in Slept :
          run.errs[i].err.retryAfter = Undefined
              => /\ run.sleeps[i] = initialDelay * Pow2(i - 1)
                 /\ initialDelay = DefaultInitialDelay
                        => run.sleeps[i] = <<1000, 2000, 4000, 8000, 16000>>[i]

C4_Witness ==
    /\ maxRetries = DefaultMaxRetries
    /\ initialDelay = DefaultInitialDelay
    /\ run.sleeps = <<1000, 2000, 4000>>
    /\ run.errs[1].err.isHttp
    /\ ~run.errs[2].err.isHttp

\* C5 (as claimed): once an attempt has failed with AUTH_FAILED, NOT_FOUND
\* or API_ERROR the operation is not invoked again.
C5_PermanentNeverRetried ==
    \A i \in Failed :
        run.errs[i].err.code \in PermanentCodes => run.calls = i

\* C5 (amended): an AUTH_FAILED, NOT_FOUND or API_ERROR failure ends the
\* call only when it is the failure of the last attempt; on an earlier
\* attempt it is followed by a sleep and another invocation.
C5_PermanentRetriedUntilExhausted ==
    \A i \in Failed :
        run.errs[i].err.code \in PermanentCodes =>
            /\ i <= maxRetries =>
                  /\ i \in Slept
                  /\ run.calls = i => run.pc \in {"sleep", "call"}
            /\ i = maxRetries + 1 =>
                  /\ run.pc = "thrown"
                  /\ run.thrown = run.errs[i]

C5_Witness ==
    /\ run.pc = "thrown"
    /\ run.calls = 3
    /\ \A i \in Failed : run.errs[i].err.code = "AUTH_FAILED"

\* C6: fed the same attempt outcomes, a call whose failures are
\* AUTH_FAILED, NOT_FOUND or API_ERROR and a call whose failures are
\* unclassified make the same number of invocations and sleep the same
\* delays.
C6_BlindToPermanentKinds ==
    /\ run.pc = twin.pc
    /\ run.attempt = twin.attempt
    /\ run.calls = twin.calls
    /\ run.sleeps = twin.sleeps
    /\ Len(run.errs) = Len(twin.errs)
    /\ \A i \in Failed : twin.errs[i].err.code \notin PermanentCodes

C6_Witness ==
    /\ Len(run.errs) >= 3
    /\ run.errs[1].err.code = "AUTH_FAILED"
    /\ run.errs[2].err.code = "NOT_FOUND"
    /\ run.errs[3].err.code = "API_ERROR"
    /\ \A i \in 1..3 : ~twin.errs[i].err.isHttp
    /\ Len(twin.sleeps) >= 2

\* the seconds a retry-after header states, for the headers that are a
\* decimal integer
HeaderSeconds(h) ==
    CASE h = Header(<<"0">>) -> 0
      [] h = Header(<<"2">>) -> 2
      [] h = Header(<<"1", "0">>) -> 10

IntegerHeaders == {Header(<<"0">>), Header(<<"2">>), Header(<<"1", "0">>)}

\* C7: a response that is no success makes request throw an HttpError:
\* RATE_LIMITED for 429 (with the retry-after header as integer seconds,
\* and no value when the header is absent), else AUTH_FAILED for 401 and
\* 403, else NOT_FOUND for 404, else API_ERROR with the raw status.
C7_Classification ==
    (reqOut.done /\ reqIn.kind = "response" /\ reqIn.latency < DefaultTimeout
        /\ (reqIn.status < 200 \/ reqIn.status > 299)) =>
        LET e == reqOut.res.error
        IN  /\ ~reqOut.res.ok
            /\ e.isHttp
            /\ e.status = reqIn.status
            /\ e.code = CASE reqIn.status = 429 -> "RATE_LIMITED"
                          [] reqIn.status \in {401, 403} -> "AUTH_FAILED"
                          [] reqIn.status = 404 -> "NOT_FOUND"
                          [] OTHER -> "API_ERROR"
            /\ (reqIn.status = 429 /\ ~reqIn.retryAfter.present) => e.retryAfter = Undefined
            /\ (reqIn.status = 429 /\ reqIn.retryAfter \in IntegerHeaders)
                  => e.retryAfter = Num(HeaderSeconds(reqIn.retryAfter))
            /\ reqIn.status # 429 => e.retryAfter = Undefined

C7_Witness ==
    /\ reqOut.done
    /\ reqIn.status = 429
    /\ reqIn.retryAfter = Header(<<"1", "0">>)
    /\ reqOut.res.error.code = "RATE_LIMITED"
    /\ reqOut.res.error.retryAfter = Num(10)

\* C8: a request that exceeds its timeout is aborted and fails with an
\* error that is no HttpError and carries no retry-after; withRetry
\* retries it after the exponential backoff and throws it as it is when
\* it is the failure of the last attempt.
C8_TimeoutRetried ==
    \A i \in Failed :
        LET f == run.errs[i]
        IN  /\ f.aborted <=> f.err.name = "AbortError"
            /\ f.aborted =>
                  /\ ~f.err.isHttp
                  /\ f.err.retryAfter = Undefined
                  /\ f.err.code \notin {"RATE_LIMITED", "AUTH_FAILED", "NOT_FOUND", "API_ERROR"}
                  /\ i <= maxRetries =>
                        /\ i \in Slept
                        /\ run.sleeps[i] = initialDelay * Pow2(i - 1)
                        /\ run.calls = i => run.pc \in {"sleep", "call"}
                  /\ i = maxRetries + 1 =>
                        /\ run.pc = "thrown"
                        /\ run.thrown = f

C8_Witness ==
    /\ run.pc = "thrown"
    /\ Len(run.errs) = 3
    /\ \A i \in Failed : run.errs[i].aborted
    /\ run.sleeps = <<250, 500>>
    /\ run.thrown.err.name = "AbortError"

----------------------------------------------------------------------------
(* Properties of the credential resolver *)

\* the last operation was a resolveAccessToken with neither a flag value
\* nor an environment value to return
ResolvedFromRecord ==
    last.op = "resolve" /\ ~TruthyStr(last.flag) /\ ~TruthyStr(last.env)

\* C9: a given flag value is returned as it is whatever the environment
\* and the persisted record hold; without one, a set GTM_ACCESS_TOKEN is
\* returned whatever the record holds; in both cases the token endpoint is
\* not called and the record is not written. Only without both does the
\* result come from the record.
C9_TokenSourcePriority ==
    last.op = "resolve" =>
        /\ TruthyStr(last.flag) =>
              /\ last.result = last.flag
              /\ ~last.threw /\ last.calls = <<>> /\ ~last.wrote
        /\ (~TruthyStr(last.flag) /\ TruthyStr(last.env)) =>
              /\ last.result = last.env
              /\ ~last.threw /\ last.calls = <<>> /\ ~last.wrote
        /\ (last.calls # <<>> \/ last.wrote \/ last.threw
                \/ last.result \in AccessTokens) => ResolvedFromRecord

C9_Witness ==
    /\ last.op = "resolve"
    /\ last.flag = "F"
    /\ last.env = "E"
    /\ last.result = "F"
    /\ TruthyStr(last.before.oauth_token)
    /\ Expired(last.before, last.at)
    /\ CanRefresh(last.before)
    /\ config.auth = last.before

\* C10: with a persisted OAuth record that has expired and holds a refresh
\* token, client id and client secret, resolveAccessToken makes exactly
\* one refresh exchange; when it succeeds the new token and the new expiry
\* (the time of the answer + expires_in seconds) are persisted and the new
\* token is returned; the next resolveAccessToken, made before that
\* expiry, returns the same token without calling the token endpoint.
C10_ExpiredIsRefreshed ==
    /\ (/\ ResolvedFromRecord
        /\ last.before.present
        /\ ~TruthyStr(last.before.service_account_key_path)
        /\ TruthyStr(last.before.oauth_token)
        /\ last.before.oauth_expires_at.t = "num"
        /\ last.before.oauth_expires_at.v <= last.at
        /\ last.before.oauth_refresh_token # "undefined"
        /\ last.before.client_id # "undefined"
        /\ last.before.client_secret # "undefined")
       => /\ last.calls = <<"refresh">>
          /\ last.answer.kind = "ok" =>
                /\ ~last.threw
                /\ last.result = last.answer.access_token
                /\ config.auth.oauth_token = last.answer.access_token
                /\ config.auth.oauth_expires_at =
                       Num(last.until + last.answer.expires_in * 1000)
    /\ (/\ ResolvedFromRecord
        /\ last.prev # "undefined"
        /\ last.at < last.before.oauth_expires_at.v)
       => /\ last.result = last.prev
          /\ ~last.threw /\ last.calls = <<>> /\ ~last.wrote

C10_Witness ==
    /\ ResolvedFromRecord
    /\ last.prev \in AccessTokens
    /\ last.result = last.prev
    /\ last.calls = <<>>
    /\ last.at > StartTime
    /\ last.at < last.before.oauth_expires_at.v
    /\ config.auth.oauth_token = last.prev

----------------------------------------------------------------------------
(* Properties of the persisted credential record *)

\* the record holds OAuth fields and no key path
OAuthShaped(auth) ==
    auth.present /\ ~TruthyStr(auth.service_account_key_path) /\ TruthyStr(auth.oauth_token)

\* the last operation resolved from a record that held a key path
ResolvedServiceAccount ==
    ResolvedFromRecord /\ last.before.present
        /\ TruthyStr(last.before.service_account_key_path)

\* C11: with a persisted OAuth record whose expiry has been reached and
\* that holds no refresh token, resolveAccessToken returns undefined, makes
\* no call to the token endpoint and leaves the record as it was; the
\* stored, expired token is not returned.
C11_ExpiredWithoutRefreshIsAbsent ==
    (/\ ResolvedFromRecord
     /\ OAuthShaped(last.before)
     /\ last.before.oauth_expires_at.t = "num"
     /\ last.before.oauth_expires_at.v <= last.at
     /\ last.before.oauth_refresh_token = "undefined")
    => /\ last.result = "undefined"
       /\ last.result # last.before.oauth_token
       /\ ~last.threw
       /\ last.calls = <<>>
       /\ ~last.wrote
       /\ config.auth = last.before

C11_Witness ==
    /\ ResolvedFromRecord
    /\ OAuthShaped(last.before)
    /\ last.before.oauth_token \in AccessTokens
    /\ last.before.oauth_refresh_token = "undefined"
    /\ last.before.oauth_expires_at.v <= last.at
    /\ last.result = "undefined"
    /\ config.auth = last.before

\* C12: the stored OAuth token goes from none to valid (a login stores a
\* token whose expiry lies ahead) to expired (by the passing of time
\* alone), and an expired token stays expired until a refresh succeeds or
\* a login, setup or logout replaces the record: a refresh that fails
\* throws and leaves token and expiry as they were, and no
\* resolveAccessToken returns the stored token once its expiry has been
\* reached (what it returns then is the token of the refresh answer).
C12_TokenLifecycle ==
    /\ [](/\ (ResolvedFromRecord /\ last.calls = <<"refresh">> /\ last.answer.kind # "ok")
              => /\ last.threw
                 /\ ~last.wrote
                 /\ config.auth = last.before
                 /\ Expired(config.auth, now)
          /\ (ResolvedFromRecord /\ OAuthShaped(last.before) /\ Expired(last.before, last.at))
              => (last.result # "undefined" =>
                     /\ last.calls = <<"refresh">>
                     /\ last.answer.kind = "ok"
                     /\ last.result = last.answer.access_token))
    /\ [][/\ (OAuthShaped(config.auth) /\ Expired(config.auth, now)
                /\ ~(OAuthShaped(config'.auth) /\ Expired(config'.auth, now')))
             => \/ last'.op \in {"login", "setup", "logout"} /\ last'.wrote
                \/ /\ last'.op = "resolve"
                   /\ last'.calls = <<"refresh">>
                   /\ last'.answer.kind = "ok"
                   /\ ~Expired(config'.auth, now')
          /\ (~OAuthShaped(config.auth) /\ OAuthShaped(config'.auth))
             => last'.op = "login" /\ ~Expired(config'.auth, now')
          /\ (OAuthShaped(config.auth) /\ ~Expired(config.auth, now)
                /\ OAuthShaped(config'.auth) /\ Expired(config'.auth, now'))
             => config'.auth = config.auth /\ now' > now]_vars

C12_Witness ==
    /\ ResolvedFromRecord
    /\ last.calls = <<"refresh">>
    /\ last.answer.kind = "notok"
    /\ last.threw
    /\ OAuthShaped(config.auth)
    /\ config.auth = last.before
    /\ Expired(config.auth, now)

\* C13 as stated: with a persisted key path and neither flag nor
\* environment token, every resolveAccessToken makes exactly one JWT
\* exchange, returns the token of a successful exchange and leaves the
\* record as it was.
C13_OneExchangePerResolve ==
    ResolvedServiceAccount
    => /\ last.calls = <<"jwt">>
       /\ last.answer.kind = "ok" => ~last.threw /\ last.result = last.answer.access_token
       /\ ~last.wrote
       /\ config.auth = last.before

\* C13: with a persisted key path and neither flag nor environment token,
\* a resolveAccessToken whose key file reads as a service-account key
\* makes exactly one JWT exchange, returns its token when it succeeds and
\* throws when it does not; with a key file that is missing or is no such
\* key it throws before any exchange. In every case nothing is persisted:
\* the record stays as it was, so each resolve exchanges anew.
C13_OneExchangeWhenKeyReads ==
    ResolvedServiceAccount
    => /\ ~last.wrote
       /\ config.auth = last.before
       /\ last.key = "service_account"
            => /\ last.calls = <<"jwt">>
               /\ last.answer.kind = "ok"
                    => ~last.threw /\ last.result = last.answer.access_token
               /\ last.answer.kind # "ok" => last.threw
       /\ last.key # "service_account" => last.calls = <<>> /\ last.threw

C13_Witness ==
    /\ ResolvedServiceAccount
    /\ last.key = "service_account"
    /\ last.calls = <<"jwt">>
    /\ last.result \in AccessTokens
    /\ config.auth = ServiceAccountRecord("key.json")

\* C14: a record that holds a key path and OAuth fields at once is
\* resolved as a service account (one JWT exchange when the key reads,
\* never the stored OAuth token, never a refresh, nothing written) and
\* getAuthStatus reports the method Service Account for it.
C14_ServiceAccountPrecedence ==
    /\ (ResolvedServiceAccount /\ TruthyStr(last.before.oauth_token))
       => /\ last.calls \in {<<>>, <<"jwt">>}
          /\ last.key = "service_account" => last.calls = <<"jwt">>
          /\ last.result # last.before.oauth_token
          /\ last.result # "undefined" => last.result = last.answer.access_token
          /\ ~last.wrote
    /\ (/\ authStatus.taken
        /\ TruthyStr(authStatus.seen.service_account_key_path)
        /\ TruthyStr(authStatus.seen.oauth_token))
       => /\ authStatus.method = "Service Account"
          /\ authStatus.details = IF authStatus.key = "service_account" THEN "client_email"
                                  ELSE IF authStatus.key = "other_json" THEN "undefined"
                                  ELSE "unreadable"

C14_Witness ==
    /\ ResolvedServiceAccount
    /\ OAuthShaped([last.before EXCEPT !.service_account_key_path = "undefined"])
    /\ Expired(last.before, last.at)
    /\ CanRefresh(last.before)
    /\ last.calls = <<"jwt">>
    /\ last.result \in AccessTokens
    /\ authStatus.taken
    /\ authStatus.seen = last.before
    /\ authStatus.method = "Service Account"

\* C15: whatever logins, service-account setups, refreshes and logouts
\* have run, the persisted record never holds a key path together with an
\* OAuth field.
C15_OneShape ==
    TruthyStr(config.auth.service_account_key_path)
    => /\ config.auth.oauth_token = "undefined"
       /\ config.auth.oauth_refresh_token = "undefined"
       /\ config.auth.oauth_expires_at = Undefined
       /\ config.auth.client_id = "undefined"
       /\ config.auth.client_secret = "undefined"

C15_Witness ==
    /\ last.op = "setup"
    /\ last.wrote
    /\ OAuthShaped(last.before)
    /\ last.prev \in AccessTokens
    /\ config.auth = ServiceAccountRecord("key.json")

----------------------------------------------------------------------------
(* Properties of requireAccessToken and of the interactive login *)

\* C16: a command calls resolveAccessToken once through
\* requireAccessToken; when that returns undefined the process exits with
\* status 1 and the command makes no request, and a request is only ever
\* made with the token that was resolved.
C16_RequireExitsWithoutRequest ==
    cmd.ran
    => /\ cmd.resolves = 1
       /\ last.op = "resolve"
       /\ (~last.threw /\ last.result = "undefined")
            => cmd.exit = 1 /\ ~cmd.uncaught /\ cmd.requests = 0
       /\ cmd.requests > 0 => TruthyStr(cmd.token) /\ cmd.token = last.result

C16_Witness ==
    /\ cmd.ran
    /\ ResolvedFromRecord
    /\ OAuthShaped(last.before)
    /\ Expired(last.before, last.at)
    /\ last.result = "undefined"
    /\ ~last.threw
    /\ cmd.exit = 1
    /\ cmd.requests = 0

\* C17 as stated: a request whose state parameter is not the generated
\* state neither closes the listener nor settles the login.
C17_MismatchedStateIgnored ==
    /\ login.settledBy.kind = "callback" => login.settledBy.state = ExpectedState
    /\ (/\ login.lastCb.kind = "callback"
        /\ login.lastCb.state # ExpectedState
        /\ login.timer = "pending")
       => login.listening /\ login.settled = "none"

\* C18 as stated: a request that carries the generated state and an error
\* parameter, or that carries the generated state and no code, closes the
\* listener and fails the login.
C18_ErrorOrMissingCodeEndsLogin ==
    (/\ login.lastCb.kind = "callback"
     /\ ~login.lastCb.malformed
     /\ login.lastCb.state = ExpectedState
     /\ TruthyStr(login.lastCb.error) \/ ~TruthyStr(login.lastCb.code))
    => /\ ~login.listening
       /\ login.settled = "rejected"
       /\ login.pc = "failed"

\* C19: the listener is never open later than five minutes after it was
\* started; once the timer has fired the listener is closed and, unless a
\* request had settled the login before, the login has failed with the
\* timeout error, whatever requests were answered 400 in the meantime.
C19_ListenerTimesOut ==
    /\ login.listening => now - login.startedAt <= LoginTimeoutMs
    /\ (login.pc # "idle" /\ now - login.startedAt > LoginTimeoutMs)
       => ~login.listening /\ login.settled # "none" /\ login.timer = "fired"
    /\ login.timer = "fired"
       => /\ ~login.listening
          /\ login.settled # "none"
          /\ login.valid = 0 => login.settled = "rejected" /\ login.pc = "failed"
          /\ login.settledBy.kind \notin {"callback", "listen"}
                => login.settledBy = TimerEvent /\ login.pc = "failed"
    /\ login.settledBy = TimerEvent
       => login.timer = "fired" /\ now - login.startedAt >= LoginTimeoutMs

C19_Witness ==
    /\ login.timer = "fired"
    /\ login.settledBy = TimerEvent
    /\ login.pc = "failed"
    /\ login.stray
    /\ login.lastCb.state # ExpectedState
    /\ ~login.listening
    /\ now - login.startedAt = LoginTimeoutMs

\* C20: a login that succeeded answered exactly one request with 200 (the
\* generated state, a code), closed the listener, exchanged the code once,
\* and the record holds the access token, the refresh token, the expiry
\* (time of the answer + expires_in seconds), the client id and the client
\* secret, so that a resolveAccessToken before that expiry returns the new
\* token without a call; until the exchange has succeeded, and when it has
\* failed, the record is the one the login found.
C20_LoginStoresTokens ==
    /\ login.valid <= 1
    /\ login.exchanges <= login.valid
    /\ login.pc \in {"waiting", "exchange", "failed"} => config.auth = login.before
    /\ login.pc = "done"
       => /\ ~login.listening
          /\ login.valid = 1
          /\ login.exchanges = 1
          /\ login.settled = "resolved"
          /\ login.settledBy.state = ExpectedState
          /\ login.settledBy.error = "undefined"
          /\ login.settledBy.code = login.code /\ TruthyStr(login.code)
          /\ last.op = "login" /\ ~last.threw /\ last.answer.kind = "ok"
          /\ config.auth = OAuthRecord(last.answer.access_token, last.answer.refresh_token,
                                       Num(last.until + last.answer.expires_in * 1000),
                                       "cid", "sec")
          /\ now < config.auth.oauth_expires_at.v
                => LET r == ResolveAccessToken("undefined", "undefined", config, files,
                                               TokenNotOk, now, now)
                   IN  /\ r.result = last.answer.access_token
                       /\ ~r.threw /\ r.calls = <<>> /\ r.config = config

C20_Witness ==
    /\ login.pc = "done"
    /\ login.stray
    /\ login.exchanges = 1
    /\ login.before # NoAuth
    /\ config.auth.oauth_token = "A2"
    /\ config.auth.oauth_refresh_token = "R1"
    /\ now < config.auth.oauth_expires_at.v

----------------------------------------------------------------------------
(* Properties of setup, logout and of the empty response body *)

\* C21: setupServiceAccount stores a record exactly when the file at the
\* path given reads, parses and has type service_account, and the record
\* it stores holds the path and nothing else; for a file that is missing,
\* is no JSON or has another type it fails and the record persisted before
\* is still there.
C21_SetupValidatesKeyFile ==
    last.op = "setup"
    => /\ last.key = "service_account"
            => /\ ~last.threw
               /\ config.auth = ServiceAccountRecord(last.flag)
               /\ config.auth = [NoAuth EXCEPT !.present = TRUE,
                                               !.service_account_key_path = last.flag]
       /\ last.key # "service_account"
            => /\ last.threw
               /\ ~last.wrote
               /\ config.auth = last.before

C21_Witness ==
    /\ last.op = "setup"
    /\ last.key = "other_json"
    /\ last.flag = "other.json"
    /\ last.threw
    /\ OAuthShaped(last.before)
    /\ config.auth = last.before

\* C22: once logout has erased the record, and until a login or a setup
\* stores one, resolveAccessToken without flag and environment token
\* returns undefined without a call to the token endpoint and without
\* writing, and getAuthStatus returns null, whatever record was there
\* before the logout.
C22_AbsentAfterLogout ==
    /\ last.op = "logout" => ~config.auth.present
    /\ ~config.auth.present
       => /\ GetAuthStatus(config, files, now) = [method |-> "null", details |-> "null"]
          /\ LET r == ResolveAccessToken("undefined", "undefined", config, files,
                                         TokenNotOk, now, now)
             IN  r.result = "undefined" /\ ~r.threw /\ r.calls = <<>> /\ r.config = config
          /\ ResolvedFromRecord
                => /\ last.result = "undefined"
                   /\ ~last.threw /\ last.calls = <<>> /\ ~last.wrote
                   /\ ~last.before.present
    /\ (last.op \in {"logout", "resolve"} /\ ~last.before.present) => ~config.auth.present

C22_Witness ==
    /\ last.op = "logout"
    /\ last.wrote
    /\ OAuthShaped(last.before)
    /\ ~Expired(last.before, now)
    /\ ~config.auth.present

\* C23: a response with a status of 200 to 299 and an empty body, received
\* before the timeout, makes request return the empty object: it does not
\* throw and the value is neither null nor undefined.
C23_EmptyBodyIsEmptyObject ==
    (/\ reqOut.done
     /\ reqIn.kind = "response"
     /\ reqIn.status >= 200 /\ reqIn.status <= 299
     /\ reqIn.body.text = ""
     /\ reqIn.latency < DefaultTimeout)
    => /\ reqOut.res.ok
       /\ reqOut.res.value = "{}"
       /\ reqOut.res.value \notin {"null", "undefined", "none"}
       /\ reqOut.res.error = NoError

C23_Witness ==
    /\ reqOut.done
    /\ reqIn.kind = "response"
    /\ reqIn.status = 204
    /\ reqIn.body = EmptyBody
    /\ reqIn.latency < DefaultTimeout
    /\ reqOut.res = Returned("{}")

----------------------------------------------------------------------------
(* Properties of the listener's state check and timer, of status, of refresh *)

\* C26 as stated: a request whose url parses and whose state parameter is
\* not the generated state never settles the login, whatever else it
\* carries.
C26_ForeignStateCannotEndLogin ==
    (login.settledBy.kind = "callback" /\ ~login.settledBy.malformed)
    => login.settledBy.state = ExpectedState

\* C28 as stated: once a request has settled the login (a code, or an
\* error of the provider) the five-minute timer is no longer pending and
\* does not fire.
C28_TimerCancelledOnceDecided ==
    login.settledBy.kind = "callback" => login.timer = "none"

\* what resolveAccessToken does at time t with the record auth and neither
\* flag nor environment token
ResolveWould(auth, t) ==
    ResolveAccessToken("undefined", "undefined", [auth |-> auth, defaults |-> "D"], files,
                       TokenNotOk, t, t)

C30_RefreshKeepsTheRest ==
    (ResolvedFromRecord /\ last.calls = <<"refresh">> /\ ~last.threw)
    => /\ config.auth = [last.before EXCEPT
                            !.oauth_token = last.answer.access_token,
                            !.oauth_expires_at =
                                Num(last.until + last.answer.expires_in * 1000)]
       /\ config.auth.oauth_refresh_token = last.before.oauth_refresh_token
       /\ config.auth.client_id = last.before.client_id
       /\ config.auth.client_secret = last.before.client_secret
       /\ config.defaults = "D"
       /\ CanRefresh(config.auth)

C30_Witness ==
    /\ ResolvedFromRecord
    /\ last.calls = <<"refresh">>
    /\ ~last.threw
    /\ last.prev \in AccessTokens
    /\ last.before.oauth_token = last.prev
    /\ config.auth.oauth_refresh_token = "R1"
    /\ config.auth.oauth_token # last.prev


\* the methods of the requests a command sent, in order
Methods(sent) == [i \in DOMAIN sent |-> sent[i][1]]

\* the urls of the requests a command sent
Urls(sent) == {sent[i][2] : i \in DOMAIN sent}

\* C24: an update is fetch, merge, put: its requests are GETs followed by
\* PUTs, all to one URL; a PUT is sent only after the GET returned; the PUT
\* body is the fetched resource with the supplied fields overridden and
\* every other field as fetched; when the GET fails after its retries no
\* PUT is sent.
C24_UpdateIsFetchMergePut ==
    api.kind = "update" =>
      /\ \A i \in DOMAIN api.sent : api.sent[i][1] \in {"GET", "PUT"}
      /\ \A i, j \in DOMAIN api.sent :
            (i < j /\ api.sent[i][1] = "PUT") => api.sent[j][1] = "PUT"
      /\ Cardinality(Urls(api.sent)) <= 1
      /\ (\E i \in DOMAIN api.sent : api.sent[i][1] = "PUT") =>
            /\ api.fetched
            /\ api.sent[1][1] = "GET"
            /\ api.body.fingerprint = api.current.fingerprint
            /\ api.body.name = IF api.opts.name \in {"undefined", ""}
                               THEN api.current.name ELSE api.opts.name
            /\ api.body.notes = IF api.opts.notes = "undefined"
                                THEN api.current.notes ELSE api.opts.notes
            /\ api.body.domainName = IF api.opts.domainName = "undefined"
                                     THEN api.current.domainName ELSE api.opts.domainName
            /\ api.applied > 0 => api.resource = api.body
      /\ ~api.fetched => \A i \in DOMAIN api.sent : api.sent[i][1] = "GET"

\* an update that overrode one field, left the others as fetched, and whose
\* PUT the server carried out
C24_Witness ==
    /\ api.kind = "update"
    /\ api.opts = [NoOptions EXCEPT !.notes = "T"]
    /\ api.current.notes # "T"
    /\ api.applied > 0
    /\ api.resource = [api.current EXCEPT !.notes = "T"]
    /\ Methods(api.sent) = <<"GET", "PUT">>

\* an update whose GET failed after every retry
C24_WitnessFetchFailed ==
    /\ api.kind = "update"
    /\ ~api.fetched
    /\ Len(api.sent) = DefaultMaxRetries + 1

\* C25: a command given --dry-run sends no POST, PUT or DELETE and the
\* server carries nothing out; create, delete and publish send no request
\* at all, update sends only its GET.
C25_DryRunChangesNothing ==
    (api.kind # "none" /\ api.dryRun) =>
      /\ \A i \in DOMAIN api.sent : api.sent[i][1] = "GET"
      /\ api.kind # "update" => api.sent = <<>>
      /\ api.applied = 0

\* a dry run of update that fetched the resource, and nothing else
C25_Witness ==
    /\ api.kind = "update"
    /\ api.dryRun
    /\ api.fetched
    /\ Methods(api.sent) = <<"GET">>
    /\ api.body # api.current
    /\ api.resource = api.current

\* C27: a create sends requests whose effects add up to at most one
\* resource, whatever happens to the responses.
C27_CreateMakesAtMostOne ==
    api.kind = "create" => api.applied <= 1

====
